---- MODULE Spec2Model ----
(***************************************************************************)
(* Transaction and connection-lifetime model of sea-orm.                   *)
(*                                                                         *)
(* One physical connection (InnerConnection) sits behind an                *)
(* Arc<futures_util::lock::Mutex<..>>.  Every DatabaseTransaction value    *)
(* holds a clone of that Arc; every operation locks the mutex for its own  *)
(* duration; a TransactionStream keeps the MutexGuard until it is dropped; *)
(* Drop for DatabaseTransaction only tries the lock.                       *)
(*                                                                         *)
(* Entity model: an ActiveModel holds one ActiveValue (Set, Unchanged,     *)
(* NotSet) per column; ActiveSpec edits it slot by slot, LifeSpec runs     *)
(* insert, update, save and delete on it with their hooks.                 *)
(*                                                                         *)
(* Queries: OneSpec fetches a single row (query_one_raw, Selector::one,    *)
(* SelectorRaw::one); ConsolidateSpec folds the rows of a joined select    *)
(* into (parent, children) pairs, by key and by the legacy ordered-rows    *)
(* pass; KeySpec reads get_primary_key_value for each ARITY; JsonSpec      *)
(* builds and overwrites an ActiveModel from a JSON document.              *)
(***************************************************************************)
EXTENDS Integers, Sequences, FiniteSets, TLC

\* ---------------------------------------------------------------- bounds
NTxn == 2          \* transaction values sharing the connection (1 = outermost)
MaxCalls == 3      \* statements / streams issued on the connection altogether
MaxRows == 1       \* rows a stream can still yield when it is built

NCols == 3         \* columns of the entity
NPk == 2           \* its leading columns form the primary key
MaxVal == 1        \* column values are 0..MaxVal, and one value unequal to itself
MaxLen == 3        \* rows of a joined query result

\* get_primary_key_value has an arm for ARITY 1, 2 and 3 and one for every greater len
MaxArity == 4

Txn == 1..NTxn

\* DbBackend / InnerConnection variants
Backends == {"MySql", "Postgres", "Sqlite", "Mock", "Proxy"}
SqlxBackends == {"MySql", "Postgres", "Sqlite"}

VARIABLES
    backend,   \* DatabaseTransaction.backend (same for every value on the connection)
    guards,    \* live MutexGuards of conn: <<t, "op">> or <<t, "stream">>
    issued,    \* issued[t]: driver calls made on the connection on behalf of t, in order
    open,      \* DatabaseTransaction.open
    pc,        \* position of the task that drives transaction value t
    parent,    \* the transaction value t was begun from (0: the DatabaseConnection)
    cbres,     \* "none", or the outcome "Ok" / "Err" of the callback once run() has got it
    result,    \* value returned by transaction()/run(): "none", "Ok", "Transaction", "Connection"
    stream,    \* stream[t]: {} or {n}, n the rows the live TransactionStream of t can still yield
    calls,     \* statements and streams issued on the connection so far
    released,  \* history: some TransactionStream has been dropped
    conn,      \* DatabaseTransaction.conn: the Arc (connection) the value holds, 0 before begin
    entry,     \* the TransactionTrait call that made the value: method and its arguments
    config,    \* isolation_level / access_mode DatabaseTransaction::begin received
    offered    \* the entry calls the callers of this run use

VARIABLES
    am,        \* an ActiveModel: one ActiveValue per column
    ret,       \* the last ActiveModel / ActiveValue operation and what it returned
    life       \* insert / update / save / delete in progress on am: steps taken so far

VARIABLES
    input,         \* the rows SelectTwoMany::all hands to consolidate_query_result
    rows,          \* consolidate_query_result_of: rows, whose children the fold takes
    hashmap,       \* consolidate_query_result_of: hashmap, parent key -> children
    consolidated,  \* the Vec<(L::Model, Vec<R::Model>)> collected so far
    phase,         \* "none", "fold", "into_iter", "done"
    cursor         \* index of the row the current iterator yields next

VARIABLES
    pk             \* the entity's primary key: number of PrimaryKey columns, ARITY of its ValueType

txn_vars == <<backend, guards, issued, open, pc, parent, cbres, result, stream, calls, released,
              conn, entry, config, offered>>
entity_vars == <<am, ret, life>>
begin_vars == <<conn, entry, config, offered>>
consolidate_vars == <<input, rows, hashmap, consolidated, phase, cursor>>
key_vars == <<pk>>
non_txn_vars == <<entity_vars, consolidate_vars, key_vars>>
non_entity_vars == <<txn_vars, consolidate_vars, key_vars>>
non_consolidate_vars == <<txn_vars, entity_vars, key_vars>>

vars == <<txn_vars, entity_vars, consolidate_vars, key_vars>>

Ev(c, ok) == [call |-> c, ok |-> ok]

Issue(t, c, ok) == [issued EXCEPT ![t] = Append(@, Ev(c, ok))]

\* Mutex::lock().await completes only when no guard is alive
CanLockAlways(t) == TRUE
CanLock(t) == guards = {}

\* Mutex::try_lock() yields a guard only when no guard is alive
TryLock == guards = {}

\* the value is alive: begin returned Ok and it has not been consumed or dropped yet
Alive(t) == pc[t] \in {"idle", "stmt_wait", "stmt_locked", "stream_wait",
                       "commit_wait", "commit_locked", "rollback_wait", "rollback_locked"}

\* a shared borrow of t is outstanding: a stream built from it, or a nested begin in flight
Borrowed(t) ==
    \/ stream[t] # {}
    \/ \E c \in Txn : parent[c] = t /\ pc[c] \in {"begin_wait", "begin_locked", "begin_second"}

\* Option<IsolationLevel>, Option<AccessMode>
IsolationLevels == {"None", "Serializable"}
AccessModes == {"None", "ReadOnly"}
NoConfig == [isolation_level |-> "None", access_mode |-> "None"]

\* the calls of TransactionTrait that make a transaction value
NoEntry == [via |-> "none", isolation_level |-> "None", access_mode |-> "None"]
BeginEntry == [via |-> "begin", isolation_level |-> "None", access_mode |-> "None"]
ConfigEntries ==
    {[via |-> "begin_with_config", isolation_level |-> i, access_mode |-> a] :
        i \in IsolationLevels, a \in AccessModes}
Entries == {BeginEntry} \cup ConfigEntries

\* Column::iter() and PrimaryKey::iter() of the entity
Columns == 1..NCols
PrimaryKey == 1..NPk

\* a value v with v != v under PartialEq (a float NaN), besides 0..MaxVal
NaN == 0 - 1
Values == (0..MaxVal) \cup {NaN}

\* the entity's last column is an Option; Option::None as its value
Nullable == {NCols}
NoneValue == 0 - 2

\* ActiveValue<V>: the payload is a set, empty for NotSet
NotSet == [state |-> "NotSet", value |-> {}]
SetValue(v) == [state |-> "Set", value |-> {v}]
UnchangedValue(v) == [state |-> "Unchanged", value |-> {v}]
ActiveValues == {NotSet} \cup {SetValue(v) : v \in Values} \cup {UnchangedValue(v) : v \in Values}
ActiveModels == [Columns -> ActiveValues]
Models == [Columns -> Values]

\* ActiveModelTrait::default(): every field NotSet
DefaultActiveModel == [c \in Columns |-> NotSet]

NoRet == [op |-> "none", col |-> 0, arg |-> {}, out |-> {}, flag |-> FALSE,
          again |-> FALSE, model |-> {}]
NoLife == [op |-> "none", via |-> "none", stage |-> "none", steps |-> <<>>,
           hooked |-> {}, sent |-> {}, key |-> {}, model |-> {}, rows |-> {}, after |-> {},
           hookret |-> {}, out |-> "none", value |-> {}, sql |-> {}]

\* no ActiveModel operation has happened, none is in progress
EntityIdle ==
    /\ am = DefaultActiveModel
    /\ ret = NoRet
    /\ life = NoLife

\* the entity is a derived one: the ValueType of its primary key has one
\* component per PrimaryKey column
DerivedKey == [columns |-> NPk, arity |-> NPk]
KeyIdle == pk = DerivedKey

\* no query result is being consolidated
ConsolidateIdle ==
    /\ input = <<>>
    /\ rows = <<>>
    /\ hashmap = <<>>
    /\ consolidated = <<>>
    /\ phase = "none"
    /\ cursor = 0

\* no transaction value exists yet
TxnInit ==
    /\ backend \in Backends
    /\ guards = {}
    /\ issued = [t \in Txn |-> <<>>]
    /\ open = [t \in Txn |-> FALSE]
    /\ pc = [t \in Txn |-> "unborn"]
    /\ parent = [t \in Txn |-> 0]
    /\ cbres = [t \in Txn |-> "none"]
    /\ result = [t \in Txn |-> "none"]
    /\ stream = [t \in Txn |-> {}]
    /\ calls = 0
    /\ released = FALSE
    /\ conn = [t \in Txn |-> 0]
    /\ entry = [t \in Txn |-> NoEntry]
    /\ config = [t \in Txn |-> NoConfig]

TxnIdle ==
    /\ TxnInit
    /\ backend = "Mock"
    /\ offered = {BeginEntry}

\* the callers use begin() / transaction(), which pass no configuration
Init ==
    /\ TxnInit
    /\ offered = {BeginEntry}
    /\ EntityIdle
    /\ ConsolidateIdle
    /\ KeyIdle

\* ------------------------------------------------------------------ begin
\* first and second driver call of DatabaseTransaction::begin, per backend
BeginFirstCallSwapped(b) == IF b = "Postgres" THEN "set_transaction_config" ELSE "begin"
BeginFirstCall(b) ==
    CASE b \in {"MySql", "Sqlite"} -> "set_transaction_config"
      [] b = "Postgres" -> "begin"
      [] OTHER -> "begin"

BeginSecondCall(b) ==
    CASE b \in {"MySql", "Sqlite"} -> "begin"
      [] b = "Postgres" -> "set_transaction_config"
      [] OTHER -> "none"

\* TransactionTrait::begin passes None, None to DatabaseTransaction::begin;
\* begin_with_config passes its arguments on
BeginArgs(e) ==
    IF e.via = "begin"
    THEN [isolation_level |-> "None", access_mode |-> "None"]
    ELSE [isolation_level |-> e.isolation_level, access_mode |-> e.access_mode]

\* Arc::clone(&self.conn): the nested value holds the connection of the value p
NestedConnFresh(p) == conn[p] + 1
NestedConn(p) == conn[p]

\* begin(), begin_with_config(), transaction(), transaction_with_config():
\* the struct is built with open = true and a clone of the caller's conn
BeginCall(t, p, e) ==
    /\ pc[t] = "unborn"
    /\ IF t = 1 THEN p = 0 ELSE p \in Txn /\ pc[p] = "idle" /\ pc[t - 1] # "unborn"
    /\ e \in offered
    /\ open' = [open EXCEPT ![t] = TRUE]
    /\ parent' = [parent EXCEPT ![t] = p]
    /\ conn' = [conn EXCEPT ![t] = IF p = 0 THEN 1 ELSE NestedConn(p)]
    /\ entry' = [entry EXCEPT ![t] = e]
    /\ config' = [config EXCEPT ![t] = BeginArgs(e)]
    /\ pc' = [pc EXCEPT ![t] = "begin_wait"]
    /\ UNCHANGED <<non_txn_vars, offered, backend, guards, issued, cbres, result, stream, calls, released>>

BeginLock(t) ==
    /\ pc[t] = "begin_wait"
    /\ CanLock(t)
    /\ guards' = guards \cup {<<t, "op">>}
    /\ pc' = [pc EXCEPT ![t] = "begin_locked"]
    /\ UNCHANGED <<non_txn_vars, begin_vars, backend, issued, open, parent, cbres, result, stream, calls, released>>

\* first driver call; Mock and Proxy have a single infallible call
BeginFirst(t, ok) ==
    /\ pc[t] = "begin_locked"
    /\ backend \notin SqlxBackends => ok
    /\ issued' = Issue(t, BeginFirstCall(backend), ok)
    /\ IF ok /\ backend \in SqlxBackends
       THEN /\ pc' = [pc EXCEPT ![t] = "begin_second"]
            /\ UNCHANGED guards
       ELSE /\ guards' = guards \ {<<t, "op">>}
            /\ pc' = [pc EXCEPT ![t] = IF ok THEN "idle" ELSE "begin_failed"]
    /\ UNCHANGED <<non_txn_vars, begin_vars, backend, open, parent, cbres, result, stream, calls, released>>

BeginSecond(t, ok) ==
    /\ pc[t] = "begin_second"
    /\ issued' = Issue(t, BeginSecondCall(backend), ok)
    /\ guards' = guards \ {<<t, "op">>}
    /\ pc' = [pc EXCEPT ![t] = IF ok THEN "idle" ELSE "begin_failed"]
    /\ UNCHANGED <<non_txn_vars, begin_vars, backend, open, parent, cbres, result, stream, calls, released>>

\* ------------------------------------------------- statements through t
\* execute_raw, execute_unprepared, query_one_raw and query_all_raw share one
\* protocol: lock().await, one driver call under the guard, guard dropped
StmtCallStep(t) ==
    /\ pc[t] = "idle"
    /\ pc' = [pc EXCEPT ![t] = "stmt_wait"]
    /\ UNCHANGED <<non_txn_vars, begin_vars, backend, guards, issued, open, parent, cbres, result, stream>>

StmtCall(t) == StmtCallStep(t) /\ UNCHANGED <<calls, released>>

StmtLock(t) ==
    /\ pc[t] = "stmt_wait"
    /\ CanLock(t)
    /\ guards' = guards \cup {<<t, "op">>}
    /\ pc' = [pc EXCEPT ![t] = "stmt_locked"]
    /\ UNCHANGED <<non_txn_vars, begin_vars, backend, issued, open, parent, cbres, result, stream, calls, released>>

StmtExec(t) ==
    /\ pc[t] = "stmt_locked"
    /\ guards' = guards \ {<<t, "op">>}
    /\ pc' = [pc EXCEPT ![t] = "idle"]
    /\ UNCHANGED <<non_txn_vars, begin_vars, backend, issued, open, parent, cbres, result, stream, calls, released>>

\* ---------------------------------------------------------------- streams
\* stream_raw: lock().await, then TransactionStream::build keeps the guard
StreamCallStep(t) ==
    /\ pc[t] = "idle"
    /\ pc' = [pc EXCEPT ![t] = "stream_wait"]
    /\ UNCHANGED <<non_txn_vars, begin_vars, backend, guards, issued, open, parent, cbres, result, stream>>

StreamCall(t) == StreamCallStep(t) /\ UNCHANGED <<calls, released>>

\* rows the stream built on backend b can yield: Proxy yields one Err item
StreamRows(b) == IF b = "Proxy" THEN {1} ELSE 0..MaxRows

\* TransactionStream::build moves the guard into the stream
StreamGuardsAfterBuildReleased(t) == guards
StreamGuardsAfterBuild(t) == guards \cup {<<t, "stream">>}

StreamBuild(t, n) ==
    /\ pc[t] = "stream_wait"
    /\ CanLock(t)
    /\ n \in StreamRows(backend)
    /\ guards' = StreamGuardsAfterBuild(t)
    /\ stream' = [stream EXCEPT ![t] = {n}]
    /\ pc' = [pc EXCEPT ![t] = "idle"]
    /\ UNCHANGED <<non_txn_vars, begin_vars, backend, issued, open, parent, cbres, result, calls, released>>

\* Stream::poll_next yielding an item
PollNext(t) ==
    /\ pc[t] = "idle"
    /\ \E n \in stream[t] : n > 0 /\ stream' = [stream EXCEPT ![t] = {n - 1}]
    /\ UNCHANGED <<non_txn_vars, begin_vars, backend, guards, issued, open, pc, parent, cbres, result, calls, released>>

\* dropping the TransactionStream drops its MutexGuard
StreamGuardsAfterDropKept(t) == guards
StreamGuardsAfterDrop(t) == guards \ {<<t, "stream">>}

DropStreamStep(t) ==
    /\ pc[t] = "idle"
    /\ stream[t] # {}
    /\ guards' = StreamGuardsAfterDrop(t)
    /\ stream' = [stream EXCEPT ![t] = {}]
    /\ UNCHANGED <<non_txn_vars, begin_vars, backend, issued, open, pc, parent, cbres, result>>

DropStream(t) == DropStreamStep(t) /\ UNCHANGED <<calls, released>>

\* ------------------------------------------------------ commit / rollback
\* run(): the callback has returned r; commit on Ok, rollback on Err
RunCloses(r) == IF r = "Ok" THEN "commit" ELSE "rollback"

Run(t, r) ==
    /\ pc[t] = "idle"
    /\ ~Borrowed(t)
    /\ cbres' = [cbres EXCEPT ![t] = r]
    /\ pc' = [pc EXCEPT ![t] = IF RunCloses(r) = "commit" THEN "commit_wait" ELSE "rollback_wait"]
    /\ UNCHANGED <<non_txn_vars, begin_vars, backend, guards, issued, open, parent, result, stream, calls, released>>

\* the caller consumes the value with commit() or rollback()
CloseCall(t, c) ==
    /\ pc[t] = "idle"
    /\ ~Borrowed(t)
    /\ pc' = [pc EXCEPT ![t] = IF c = "commit" THEN "commit_wait" ELSE "rollback_wait"]
    /\ UNCHANGED <<non_txn_vars, begin_vars, backend, guards, issued, open, parent, cbres, result, stream, calls, released>>

CommitLock(t) ==
    /\ pc[t] = "commit_wait"
    /\ CanLock(t)
    /\ guards' = guards \cup {<<t, "op">>}
    /\ pc' = [pc EXCEPT ![t] = "commit_locked"]
    /\ UNCHANGED <<non_txn_vars, begin_vars, backend, issued, open, parent, cbres, result, stream, calls, released>>

\* open is cleared only when the driver call succeeded
OpenAfterCloseKept(t, ok) == open
OpenAfterClose(t, ok) == IF ok THEN [open EXCEPT ![t] = FALSE] ELSE open

CommitExec(t, ok) ==
    /\ pc[t] = "commit_locked"
    /\ backend \notin SqlxBackends => ok
    /\ issued' = Issue(t, "commit", ok)
    /\ guards' = guards \ {<<t, "op">>}
    /\ open' = OpenAfterClose(t, ok)
    /\ pc' = [pc EXCEPT ![t] = IF ok THEN "commit_ok" ELSE "commit_failed"]
    /\ UNCHANGED <<non_txn_vars, begin_vars, backend, parent, cbres, result, stream, calls, released>>

RollbackLock(t) ==
    /\ pc[t] = "rollback_wait"
    /\ CanLock(t)
    /\ guards' = guards \cup {<<t, "op">>}
    /\ pc' = [pc EXCEPT ![t] = "rollback_locked"]
    /\ UNCHANGED <<non_txn_vars, begin_vars, backend, issued, open, parent, cbres, result, stream, calls, released>>

RollbackExec(t, ok) ==
    /\ pc[t] = "rollback_locked"
    /\ backend \notin SqlxBackends => ok
    /\ issued' = Issue(t, "rollback", ok)
    /\ guards' = guards \ {<<t, "op">>}
    /\ open' = OpenAfterClose(t, ok)
    /\ pc' = [pc EXCEPT ![t] = IF ok THEN "rollback_ok" ELSE "rollback_failed"]
    /\ UNCHANGED <<non_txn_vars, begin_vars, backend, parent, cbres, result, stream, calls, released>>

\* ------------------------------------------------------------------- drop
\* the driver call start_rollback makes: the mock connection rolls back at once
StartRollbackCall(b) == IF b = "Mock" THEN "rollback" ELSE "start_rollback"

\* what transaction()/run() returns once the value has been dropped
RunResultKeepsWorkError(at, cb) ==
    CASE at = "commit_ok" -> "Ok"
      [] at = "rollback_ok" -> "Transaction"
      [] at = "rollback_failed" -> "Transaction"
      [] OTHER -> "Connection"
RunResult(at, cb) ==
    CASE at \in {"commit_failed", "rollback_failed"} -> "Connection"
      [] OTHER -> IF cb = "Ok" THEN "Ok" ELSE "Transaction"

\* the positions at which the value goes out of scope
Dropping(t) ==
    \/ pc[t] \in {"begin_failed", "commit_ok", "commit_failed", "rollback_ok", "rollback_failed"}
    \/ pc[t] = "idle" /\ ~Borrowed(t)

\* start_rollback as called by Drop: "rollback", "panic" or "nothing"
StartRollbackSkipsWhenLocked(t) == IF open[t] /\ TryLock THEN "rollback" ELSE "nothing"
StartRollback(t) ==
    IF open[t]
    THEN IF TryLock THEN "rollback" ELSE "panic"
    ELSE "nothing"

DropTransaction(t) ==
    /\ Dropping(t)
    /\ issued' = IF StartRollback(t) = "rollback"
                 THEN Issue(t, StartRollbackCall(backend), TRUE)
                 ELSE issued
    /\ pc' = [pc EXCEPT ![t] = IF StartRollback(t) = "panic" THEN "panicked" ELSE "dropped"]
    /\ result' = IF cbres[t] # "none" /\ StartRollback(t) # "panic"
                 THEN [result EXCEPT ![t] = RunResult(pc[t], cbres[t])]
                 ELSE result
    /\ UNCHANGED <<non_txn_vars, begin_vars, backend, guards, open, parent, cbres, stream, calls, released>>

\* ------------------------------------------------------------------- spec
Next ==
    \/ \E t \in Txn, p \in {0} \cup Txn, e \in Entries : BeginCall(t, p, e)
    \/ \E t \in Txn : BeginLock(t)
    \/ \E t \in Txn, ok \in BOOLEAN : BeginFirst(t, ok)
    \/ \E t \in Txn, ok \in BOOLEAN : BeginSecond(t, ok)
    \/ \E t \in Txn : StmtCall(t)
    \/ \E t \in Txn : StmtLock(t)
    \/ \E t \in Txn : StmtExec(t)
    \/ \E t \in Txn : StreamCall(t)
    \/ \E t \in Txn, n \in 0..MaxRows : StreamBuild(t, n)
    \/ \E t \in Txn : PollNext(t)
    \/ \E t \in Txn : DropStream(t)
    \/ \E t \in Txn, r \in {"Ok", "Err"} : Run(t, r)
    \/ \E t \in Txn, c \in {"commit", "rollback"} : CloseCall(t, c)
    \/ \E t \in Txn : CommitLock(t)
    \/ \E t \in Txn, ok \in BOOLEAN : CommitExec(t, ok)
    \/ \E t \in Txn : RollbackLock(t)
    \/ \E t \in Txn, ok \in BOOLEAN : RollbackExec(t, ok)
    \/ \E t \in Txn : DropTransaction(t)

Spec == Init /\ [][Next]_vars

\* ------------------------------------- begin with and without configuration
\* The callers use begin(), begin_with_config() and their transaction()
\* counterparts; the values are begun and dropped.
BeginInit ==
    /\ TxnInit
    /\ offered = Entries
    /\ EntityIdle
    /\ ConsolidateIdle
    /\ KeyIdle

BeginNext ==
    \/ \E t \in Txn, p \in {0} \cup Txn, e \in Entries : BeginCall(t, p, e)
    \/ \E t \in Txn : BeginLock(t)
    \/ \E t \in Txn, ok \in BOOLEAN : BeginFirst(t, ok)
    \/ \E t \in Txn, ok \in BOOLEAN : BeginSecond(t, ok)
    \/ \E t \in Txn : DropTransaction(t)

BeginSpec == BeginInit /\ [][BeginNext]_vars

\* ------------------------------------------------- finite tasks, fair runs
\* The tasks issue at most MaxCalls statements and streams altogether, and the
\* run remembers whether a stream has been dropped.
StmtCallCounted(t) ==
    /\ calls < MaxCalls
    /\ calls' = calls + 1
    /\ StmtCallStep(t)
    /\ UNCHANGED released

StreamCallCounted(t) ==
    /\ calls < MaxCalls
    /\ calls' = calls + 1
    /\ StreamCallStep(t)
    /\ UNCHANGED released

DropStreamMarked(t) ==
    /\ DropStreamStep(t)
    /\ released' = TRUE
    /\ UNCHANGED calls

NextFair ==
    \/ \E t \in Txn, p \in {0} \cup Txn, e \in Entries : BeginCall(t, p, e)
    \/ \E t \in Txn : BeginLock(t)
    \/ \E t \in Txn, ok \in BOOLEAN : BeginFirst(t, ok)
    \/ \E t \in Txn, ok \in BOOLEAN : BeginSecond(t, ok)
    \/ \E t \in Txn : StmtCallCounted(t)
    \/ \E t \in Txn : StmtLock(t)
    \/ \E t \in Txn : StmtExec(t)
    \/ \E t \in Txn : StreamCallCounted(t)
    \/ \E t \in Txn, n \in 0..MaxRows : StreamBuild(t, n)
    \/ \E t \in Txn : PollNext(t)
    \/ \E t \in Txn : DropStreamMarked(t)
    \/ \E t \in Txn, r \in {"Ok", "Err"} : Run(t, r)
    \/ \E t \in Txn, c \in {"commit", "rollback"} : CloseCall(t, c)
    \/ \E t \in Txn : CommitLock(t)
    \/ \E t \in Txn, ok \in BOOLEAN : CommitExec(t, ok)
    \/ \E t \in Txn : RollbackLock(t)
    \/ \E t \in Txn, ok \in BOOLEAN : RollbackExec(t, ok)
    \/ \E t \in Txn : DropTransaction(t)

\* the steps a task takes without a decision of its caller: acquiring the lock
\* it awaits, the driver calls under the guard, the drop of a value whose
\* function has returned, and the drop of a stream by a task that awaits nothing
Progress ==
    \E t \in Txn :
        \/ BeginLock(t)
        \/ \E ok \in BOOLEAN : BeginFirst(t, ok)
        \/ \E ok \in BOOLEAN : BeginSecond(t, ok)
        \/ StmtLock(t)
        \/ StmtExec(t)
        \/ \E n \in 0..MaxRows : StreamBuild(t, n)
        \/ DropStreamMarked(t)
        \/ CommitLock(t)
        \/ \E ok \in BOOLEAN : CommitExec(t, ok)
        \/ RollbackLock(t)
        \/ \E ok \in BOOLEAN : RollbackExec(t, ok)
        \/ pc[t] # "idle" /\ DropTransaction(t)

\* a fair executor: as long as some task can take such a step, one is taken
Fairness == WF_vars(Progress)

FairSpec == Init /\ [][NextFair]_vars /\ Fairness

\* ------------------------------------------------------------ ActiveValue
\* V: PartialEq, the comparison set_if_not_equals uses
ValueEq(a, b) == a = b /\ a # NaN

is_set(s) == s.state = "Set"
is_unchanged(s) == s.state = "Unchanged"
is_not_set(s) == s.state = "NotSet"

\* ActiveValue::take: what it returns (an Option, as a set) and what
\* std::mem::take leaves in the slot
take_returns(s) ==
    CASE s.state \in {"Set", "Unchanged"} -> s.value
      [] OTHER -> {}
take_leaves_value(s) == s
take_leaves(s) == NotSet

\* ActiveValue::reset: Set(value) from what take() returned, else NotSet
reset_forgets(s) == take_leaves(s)
reset_settles(s) ==
    IF take_returns(s) # {}
    THEN [state |-> "Unchanged", value |-> take_returns(s)]
    ELSE NotSet
reset(s) ==
    IF take_returns(s) # {}
    THEN [state |-> "Set", value |-> take_returns(s)]
    ELSE NotSet

\* ActiveValue::set_if_not_equals
set_if_not_equals_settles(s, w) ==
    IF s.state \in {"Set", "Unchanged"} /\ \E current \in s.value : ValueEq(w, current)
    THEN UnchangedValue(w)
    ELSE SetValue(w)
set_if_not_equals(s, w) ==
    IF s.state = "Unchanged" /\ \E current \in s.value : ValueEq(w, current)
    THEN s
    ELSE SetValue(w)

\* ------------------------------------------------------------ ActiveModel
\* ActiveModelTrait::get of the derived ActiveModel: the field of column c
get(a, c) == a[c]

\* ActiveModelTrait::reset_all: reset(col) for every column
reset_all(a) == [c \in Columns |-> reset(get(a, c))]

\* ActiveModelTrait::is_changed
is_changed_any_value(a) == \E col \in Columns : ~is_not_set(get(a, col))
is_changed(a) == \E col \in Columns : is_set(get(a, col)) /\ ~is_unchanged(get(a, col))

\* Model::into_active_model of the derived ActiveModel
into_active_model(m) == [c \in Columns |-> UnchangedValue(m[c])]

\* the record of a call: again says that the previous call was the same one
Ret(op, c, arg, out, flag) ==
    [op |-> op, col |-> c, arg |-> arg, out |-> out, flag |-> flag,
     again |-> (ret.op = op /\ ret.col = c /\ ret.arg = arg), model |-> {}]

\* the ActiveModel edited is the default one or one converted from a Model
IntoActiveModel(m) ==
    /\ ret = NoRet
    /\ am' = into_active_model(m)
    /\ ret' = [Ret("into_active_model", 0, {}, {}, FALSE) EXCEPT !.model = {m}]
    /\ UNCHANGED <<non_entity_vars, life>>

\* am.field = Set(v), or ActiveModelTrait::set(c, v)
SetColumn(c, v) ==
    /\ am' = [am EXCEPT ![c] = SetValue(v)]
    /\ ret' = Ret("set", c, {v}, {}, FALSE)
    /\ UNCHANGED <<non_entity_vars, life>>

SetIfNotEquals(c, w) ==
    /\ am' = [am EXCEPT ![c] = set_if_not_equals(am[c], w)]
    /\ ret' = Ret("set_if_not_equals", c, {w}, {}, FALSE)
    /\ UNCHANGED <<non_entity_vars, life>>

Take(c) ==
    /\ am' = [am EXCEPT ![c] = take_leaves(am[c])]
    /\ ret' = Ret("take", c, {}, take_returns(am[c]), FALSE)
    /\ UNCHANGED <<non_entity_vars, life>>

Reset(c) ==
    /\ am' = [am EXCEPT ![c] = reset(am[c])]
    /\ ret' = Ret("reset", c, {}, {}, FALSE)
    /\ UNCHANGED <<non_entity_vars, life>>

ResetAll ==
    /\ am' = reset_all(am)
    /\ ret' = Ret("reset_all", 0, {}, {}, FALSE)
    /\ UNCHANGED <<non_entity_vars, life>>

IsChanged ==
    /\ ret' = Ret("is_changed", 0, {}, {}, is_changed(am))
    /\ UNCHANGED <<non_entity_vars, am, life>>

ActiveInit ==
    /\ TxnIdle
    /\ EntityIdle
    /\ ConsolidateIdle
    /\ KeyIdle

ActiveNext ==
    \/ \E m \in Models : IntoActiveModel(m)
    \/ \E c \in Columns, v \in Values : SetColumn(c, v)
    \/ \E c \in Columns, w \in Values : SetIfNotEquals(c, w)
    \/ \E c \in Columns : Take(c)
    \/ \E c \in Columns : Reset(c)
    \/ ResetAll
    \/ IsChanged

ActiveSpec == ActiveInit /\ [][ActiveNext]_vars

\* ------------------------------------------ insert, update, save, delete
\* A hook is supplied by the application: it fails, or returns the record it
\* was given, or returns it with a column changed.
HookEditsActive(a) == {a, [a EXCEPT ![NCols] = SetValue(0)]}
HookEditsModel(m) == {m, [m EXCEPT ![NCols] = MaxVal]}

\* the row the statement returns: the record's values, and the value the
\* database fills in where the record has none
ModelOf(a) == [c \in Columns |-> IF a[c].value = {} THEN 0 ELSE CHOOSE v \in a[c].value : TRUE]

Step(name, ok) == [step |-> name, ok |-> ok]

\* save: is_update unless some primary key column is_not_set
is_update_unless_all_not_set(a) == \E key \in PrimaryKey : ~is_not_set(get(a, key))
is_update(a) == ~\E key \in PrimaryKey : is_not_set(get(a, key))

\* the operation runs on the ActiveModel am, passed by value
InsertCall ==
    /\ life.stage = "none"
    /\ life' = [life EXCEPT !.op = "insert", !.via = "direct", !.stage = "before"]
    /\ UNCHANGED <<non_entity_vars, am, ret>>

UpdateCall ==
    /\ life.stage = "none"
    /\ life' = [life EXCEPT !.op = "update", !.via = "direct", !.stage = "before"]
    /\ UNCHANGED <<non_entity_vars, am, ret>>

SaveCall ==
    /\ life.stage = "none"
    /\ life' = [life EXCEPT !.op = IF is_update(am) THEN "update" ELSE "insert",
                            !.via = "save", !.stage = "before"]
    /\ UNCHANGED <<non_entity_vars, am, ret>>

DeleteCall ==
    /\ life.stage = "none"
    /\ life' = [life EXCEPT !.op = "delete", !.via = "direct", !.stage = "before"]
    /\ UNCHANGED <<non_entity_vars, am, ret>>

\* let am = ActiveModelBehavior::before_save(self, db, insert).await?;
BeforeSave(ok, a) ==
    /\ life.stage = "before" /\ life.op \in {"insert", "update"}
    /\ a \in HookEditsActive(am)
    /\ life' = IF ok
               THEN [life EXCEPT !.steps = Append(@, Step("before_save", TRUE)),
                                 !.hooked = {a}, !.stage = "exec"]
               ELSE [life EXCEPT !.steps = Append(@, Step("before_save", FALSE)),
                                 !.out = "Err_before", !.stage = "done"]
    /\ UNCHANGED <<non_entity_vars, am, ret>>

\* the record the statement is built from: the one the hook returned
StatementRecord(a, hooked) == hooked

\* a value bound into the statement: NULL for Option::None
Expr_val(v) == [null |-> v = NoneValue, v |-> IF v = NoneValue THEN 0 ELSE v]

\* for col in Column::iter(): the columns of S with their values, in
\* declaration order
RECURSIVE column_list(_, _, _)
column_list(a, S, n) ==
    IF n = 0 THEN <<>>
    ELSE LET rest == column_list(a, S, n - 1)
         IN  IF n \in S
             THEN Append(rest, [col |-> n, value |-> Expr_val(CHOOSE v \in a[n].value : TRUE)])
             ELSE rest

\* Insert::one(am): every column that holds a value, Set or Unchanged
insert_columns_set_only(a) == {c \in Columns : is_set(get(a, c))}
insert_columns(a) == {c \in Columns : ~is_not_set(get(a, c))}

insert_statement(a) ==
    [kind |-> "INSERT", columns |-> column_list(a, insert_columns(a), NCols), where |-> <<>>]

\* Update::one(am): SET the Set columns outside the primary key, WHERE the
\* primary key columns equal their values
update_columns(a) == {c \in Columns \ PrimaryKey : is_set(get(a, c))}
key_filter(a) == column_list(a, {k \in PrimaryKey : ~is_not_set(get(a, k))}, NPk)

\* Update::exec: with nothing to SET the row is only selected by its key
update_statement_always(a) ==
    [kind |-> "UPDATE", columns |-> column_list(a, update_columns(a), NCols), where |-> key_filter(a)]
update_statement(a) ==
    IF update_columns(a) = {}
    THEN [kind |-> "SELECT", columns |-> <<>>, where |-> key_filter(a)]
    ELSE [kind |-> "UPDATE", columns |-> column_list(a, update_columns(a), NCols),
          where |-> key_filter(a)]

statement(op, a) == IF op = "insert" THEN insert_statement(a) ELSE update_statement(a)

\* Entity::insert(am).exec_with_returning(db).await? / Entity::update(am).exec(db).await?
ExecSave(ok) ==
    /\ life.stage = "exec" /\ life.op \in {"insert", "update"}
    /\ life' = IF ok
               THEN [life EXCEPT !.steps = Append(@, Step(life.op, TRUE)),
                                 !.sent = StatementRecord(am, life.hooked),
                                 !.sql = {statement(life.op, a) : a \in StatementRecord(am, life.hooked)},
                                 !.model = {ModelOf(a) : a \in StatementRecord(am, life.hooked)},
                                 !.stage = "after"]
               ELSE [life EXCEPT !.steps = Append(@, Step(life.op, FALSE)),
                                 !.sent = StatementRecord(am, life.hooked),
                                 !.sql = {statement(life.op, a) : a \in StatementRecord(am, life.hooked)},
                                 !.out = "Err_exec", !.stage = "done"]
    /\ UNCHANGED <<non_entity_vars, am, ret>>

\* a failing after_save / after_delete: its error is returned at once, nothing
\* more is executed on the connection
FailedAfterHookCompensates(steps, hook) ==
    Append(Append(steps, Step(hook, FALSE)), Step("rollback", TRUE))
FailedAfterHook(steps, hook) == Append(steps, Step(hook, FALSE))

\* what insert / update return: after_save's result; save converts it
SaveResultOfStatement(via, model, hookret) ==
    IF via = "save" THEN {into_active_model(m) : m \in model} ELSE model
SaveResult(via, model, hookret) ==
    IF via = "save" THEN {into_active_model(m) : m \in hookret} ELSE hookret

\* Self::after_save(model, db, insert).await
AfterSave(ok, m) ==
    /\ life.stage = "after" /\ life.op \in {"insert", "update"}
    /\ \E given \in life.model : m \in HookEditsModel(given)
    /\ life' = IF ok
               THEN [life EXCEPT !.steps = Append(@, Step("after_save", TRUE)),
                                 !.after = life.model, !.hookret = {m},
                                 !.value = SaveResult(life.via, life.model, {m}),
                                 !.out = "Ok", !.stage = "done"]
               ELSE [life EXCEPT !.steps = FailedAfterHook(@, "after_save"),
                                 !.after = life.model,
                                 !.out = "Err_after", !.stage = "done"]
    /\ UNCHANGED <<non_entity_vars, am, ret>>

\* let am = ActiveModelBehavior::before_delete(self, db).await?;
BeforeDelete(ok, a) ==
    /\ life.stage = "before" /\ life.op = "delete"
    /\ a \in HookEditsActive(am)
    /\ life' = IF ok
               THEN [life EXCEPT !.steps = Append(@, Step("before_delete", TRUE)),
                                 !.hooked = {a}, !.stage = "exec"]
               ELSE [life EXCEPT !.steps = Append(@, Step("before_delete", FALSE)),
                                 !.out = "Err_before", !.stage = "done"]
    /\ UNCHANGED <<non_entity_vars, am, ret>>

\* Delete::one(model): DELETE ... WHERE every primary key column = its value
delete_key(a) == [k \in PrimaryKey |-> a[k].value]

\* RowsAffected: the DELETE removes at most the one row with that key
RowsAffected == {0, 1}

\* let delete_res = Self::Entity::delete(am).exec(db).await?;
ExecDelete(ok, n) ==
    /\ life.stage = "exec" /\ life.op = "delete"
    /\ life' = IF ok
               THEN [life EXCEPT !.steps = Append(@, Step("delete", TRUE)),
                                 !.sent = StatementRecord(am, life.hooked),
                                 !.key = {delete_key(a) : a \in StatementRecord(am, life.hooked)},
                                 !.rows = {n}, !.stage = "after"]
               ELSE [life EXCEPT !.steps = Append(@, Step("delete", FALSE)),
                                 !.sent = StatementRecord(am, life.hooked),
                                 !.key = {delete_key(a) : a \in StatementRecord(am, life.hooked)},
                                 !.out = "Err_exec", !.stage = "done"]
    /\ UNCHANGED <<non_entity_vars, am, ret>>

\* let am_clone = am.clone(): the record after_delete is called with
AfterDeleteRecordInput(a, hooked) == {a}
AfterDeleteRecord(a, hooked) == hooked

\* ActiveModelBehavior::after_delete(am_clone, db).await?; Ok(delete_res)
AfterDelete(ok, a) ==
    /\ life.stage = "after" /\ life.op = "delete"
    /\ \E given \in AfterDeleteRecord(am, life.hooked) : a \in HookEditsActive(given)
    /\ life' = IF ok
               THEN [life EXCEPT !.steps = Append(@, Step("after_delete", TRUE)),
                                 !.after = AfterDeleteRecord(am, life.hooked), !.hookret = {a},
                                 !.value = life.rows,
                                 !.out = "Ok", !.stage = "done"]
               ELSE [life EXCEPT !.steps = FailedAfterHook(@, "after_delete"),
                                 !.after = AfterDeleteRecord(am, life.hooked),
                                 !.out = "Err_after", !.stage = "done"]
    /\ UNCHANGED <<non_entity_vars, am, ret>>

\* any ActiveModel may be passed to insert, update, save or delete, also one
\* whose Option column is Set(None)
NullableModels == {[a EXCEPT ![c] = SetValue(NoneValue)] : a \in ActiveModels, c \in Nullable}

LifeInit ==
    /\ TxnIdle
    /\ am \in ActiveModels \cup NullableModels
    /\ ret = NoRet
    /\ life = NoLife
    /\ ConsolidateIdle
    /\ KeyIdle

LifeNext ==
    \/ InsertCall
    \/ UpdateCall
    \/ SaveCall
    \/ DeleteCall
    \/ \E ok \in BOOLEAN, a \in HookEditsActive(am) : BeforeSave(ok, a)
    \/ \E ok \in BOOLEAN : ExecSave(ok)
    \/ \E ok \in BOOLEAN, m \in UNION {HookEditsModel(given) : given \in life.model} :
            AfterSave(ok, m)
    \/ \E ok \in BOOLEAN, a \in HookEditsActive(am) : BeforeDelete(ok, a)
    \/ \E ok \in BOOLEAN, n \in RowsAffected : ExecDelete(ok, n)
    \/ \E ok \in BOOLEAN, a \in UNION {HookEditsActive(given) : given \in life.hooked} :
            AfterDelete(ok, a)

LifeSpec == LifeInit /\ [][LifeNext]_vars

\* -------------------------------------------- consolidate_query_result
\* cake::Model {id, name} is the parent (L::Model), fruit::Model the child
CakeIds == {1, 2}
CakeNames == {"a", "b"}
Cakes == [id : CakeIds, name : CakeNames]
Fruits == {1, 2}

\* a row (L::Model, Option<R::Model>): the child is {} for None
JoinedRows == [parent : Cakes, child : {{}} \cup {{f} : f \in Fruits}]
RowSeqs == UNION {[1..n -> JoinedRows] : n \in 0..MaxLen}

\* the key of cake is its column id; an entity with the columns of Fillings
\* has its leading two or three columns as key
CakeKey == [columns |-> 1, arity |-> 1]
Fillings == [id : CakeIds, name : CakeNames, vendor_id : CakeIds]
CompositeKeys == {[columns |-> n, arity |-> n] : n \in {2, 3}}
FillingRows == [parent : Fillings, child : {{}} \cup {{f} : f \in Fruits}]
FillingRowSeqs == UNION {[1..n -> FillingRows] : n \in 0..(MaxLen - 1)}

\* <L::PrimaryKey as Iterable>::iter() .. into_column(), in declared order
ParentKeyColumns == <<"id", "name", "vendor_id">>

\* ModelTrait::get
model_get(model, col) == model[col]

\* UnitPk::get, PairPk::get, TuplePk::get, chosen by the match on ARITY: the
\* value, the pair, the vector of the values of the key columns
model_key_of_every_column(model) ==
    CASE pk.arity = 1 -> model_get(model, ParentKeyColumns[1])
      [] OTHER -> [i \in 1..Len(ParentKeyColumns) |-> model_get(model, ParentKeyColumns[i])]
model_key(model) ==
    CASE pk.arity = 1 -> model_get(model, ParentKeyColumns[1])
      [] pk.arity = 2 -> <<model_get(model, ParentKeyColumns[1]), model_get(model, ParentKeyColumns[2])>>
      [] OTHER -> [i \in 1..pk.columns |-> model_get(model, ParentKeyColumns[i])]

\* vec.push(value)
push_once(vec, value) ==
    IF \E i \in DOMAIN vec : vec[i] = value THEN vec ELSE Append(vec, value)
push(vec, value) == Append(vec, value)

\* acc.insert(key, vec)
hashmap_insert(h, key, vec) ==
    [k \in DOMAIN h \cup {key} |-> IF k = key THEN vec ELSE h[k]]

\* acc.entry(key).or_default()
entry_or_default_skipped(h, key) == h
entry_or_default(h, key) ==
    IF key \in DOMAIN h THEN h ELSE hashmap_insert(h, key, <<>>)

\* hashmap.remove(&l_pk): the map without the key
hashmap_remove_kept(h, key) == h
hashmap_remove(h, key) == [k \in DOMAIN h \ {key} |-> h[k]]

\* one step of rows.iter_mut().fold(HashMap::new(), ..)
FoldRow ==
    /\ phase = "fold" /\ cursor <= Len(rows)
    /\ LET row == rows[cursor]
           key == model_key(row.parent)
       IN  /\ hashmap' =
                 IF row.child # {}
                 THEN LET value == CHOOSE v \in row.child : TRUE
                      IN  IF key \in DOMAIN hashmap
                          THEN [hashmap EXCEPT ![key] = push(@, value)]
                          ELSE hashmap_insert(hashmap, key, <<value>>)
                 ELSE entry_or_default(hashmap, key)
           /\ rows' = [rows EXCEPT ![cursor].child = {}]
    /\ cursor' = cursor + 1
    /\ UNCHANGED <<non_consolidate_vars, input, consolidated, phase>>

\* the fold is over: rows.into_iter()
IntoIter ==
    /\ phase = "fold" /\ cursor > Len(rows)
    /\ phase' = "into_iter"
    /\ cursor' = 1
    /\ UNCHANGED <<non_consolidate_vars, input, rows, hashmap, consolidated>>

\* one step of .filter_map(|(l_model, _)| ..)
FilterMapRow ==
    /\ phase = "into_iter" /\ cursor <= Len(rows)
    /\ LET l_model == rows[cursor].parent
           l_pk == model_key(l_model)
       IN  /\ consolidated' =
                 IF l_pk \in DOMAIN hashmap
                 THEN Append(consolidated, [parent |-> l_model, children |-> hashmap[l_pk]])
                 ELSE consolidated
           /\ hashmap' = hashmap_remove(hashmap, l_pk)
    /\ cursor' = cursor + 1
    /\ UNCHANGED <<non_consolidate_vars, input, rows, phase>>

\* .collect()
Collect ==
    /\ phase = "into_iter" /\ cursor > Len(rows)
    /\ phase' = "done"
    /\ UNCHANGED <<non_consolidate_vars, input, rows, hashmap, consolidated, cursor>>

\* consolidate_query_result_of_ordered_rows, the legacy algorithm: same_l
\* compares the row's parent with the last parent on every key column
same_l_on_first_column(l, last_l) ==
    model_get(l, ParentKeyColumns[1]) = model_get(last_l, ParentKeyColumns[1])
same_l(l, last_l) ==
    \A i \in 1..pk.columns :
        model_get(l, ParentKeyColumns[i]) = model_get(last_l, ParentKeyColumns[i])

\* for (l, r) in rows, over the first n rows
RECURSIVE ordered_rows(_, _)
ordered_rows(rs, n) ==
    IF n = 0 THEN <<>>
    ELSE LET acc == ordered_rows(rs, n - 1)
             l == rs[n].parent
             r == rs[n].child
         IN  IF acc # <<>> /\ same_l(l, acc[Len(acc)].parent) /\ r # {}
             THEN [acc EXCEPT ![Len(acc)].children = Append(@, CHOOSE v \in r : TRUE)]
             ELSE Append(acc, [parent |-> l,
                               children |-> IF r = {} THEN <<>> ELSE <<CHOOSE v \in r : TRUE>>])

consolidate_query_result_of_ordered_rows(rs) == ordered_rows(rs, Len(rs))

\* the rows that were consolidated are given to the legacy algorithm as well
OrderedRows ==
    /\ phase = "done"
    /\ ret = NoRet
    /\ ret' = [NoRet EXCEPT !.op = "consolidate_query_result_of_ordered_rows",
                            !.out = {consolidate_query_result_of_ordered_rows(input)}]
    /\ UNCHANGED <<txn_vars, consolidate_vars, key_vars, am, life>>

\* any rows may come back from the joined query, of cake or of an entity with
\* a composite key
ConsolidateInit ==
    /\ TxnIdle
    /\ EntityIdle
    /\ \/ pk = CakeKey /\ input \in RowSeqs
       \/ pk \in CompositeKeys /\ input \in FillingRowSeqs
    /\ rows = input
    /\ hashmap = <<>>
    /\ consolidated = <<>>
    /\ phase = "fold"
    /\ cursor = 1

ConsolidateNext ==
    \/ FoldRow
    \/ IntoIter
    \/ FilterMapRow
    \/ Collect
    \/ OrderedRows

ConsolidateSpec == ConsolidateInit /\ [][ConsolidateNext]_vars

\* ------------------------------- primary key: extraction, find / delete by id
\* The ValueType of a primary key is written next to the PrimaryKey enum; in
\* the expanded entity format both are written by hand.
KeyTypes == [columns : 1..MaxArity, arity : 1..MaxArity]

\* PrimaryKey::iter(): the key columns are the entity's leading columns
KeyColumns(e) == 1..e.columns

KeyValues == 0..MaxVal
KeySlots == {NotSet} \cup {SetValue(v) : v \in KeyValues} \cup {UnchangedValue(v) : v \in KeyValues}

\* ActiveModels of an entity with key type e and one more column
KeyedActiveModels(e) ==
    {a \in [1..(e.columns + 1) -> KeySlots] : a[e.columns + 1] \in {NotSet, SetValue(0)}}

\* ActiveValue::into_value: Option<Value>
into_value(s) == IF is_not_set(s) THEN {} ELSE s.value

\* the ValueTuple variant built by the arm of the match on ARITY
ValueTupleVariantListFromThree(n) ==
    CASE n = 1 -> "One" [] n = 2 -> "Two" [] OTHER -> "Many"
ValueTupleVariant(n) ==
    CASE n = 1 -> "One" [] n = 2 -> "Two" [] n = 3 -> "Three" [] OTHER -> "Many"

\* next!(): the value of the next key column; None when there is no further
\* column or its slot is NotSet
next(a, e, i) == IF i \in KeyColumns(e) THEN into_value(get(a, i)) ELSE {}

get_primary_key_value(a, e) ==
    IF \E i \in 1..e.arity : next(a, e, i) = {}
    THEN {}
    ELSE {[variant |-> ValueTupleVariant(e.arity),
           values |-> [i \in 1..e.arity |-> CHOOSE v \in next(a, e, i) : TRUE]]}

\* find_by_id / delete_by_id: one filter per supplied value while keys.next()
\* yields a column, unreachable!() when it does not
by_id_panics(values, e) == \E i \in DOMAIN values : i \notin KeyColumns(e)

by_id_filters(values, e) ==
    IF by_id_panics(values, e) THEN {}
    ELSE {[i \in DOMAIN values |-> [col |-> i, value |-> values[i]]]}

\* values.into().into_value_tuple(): as many values as the ValueType has components
SuppliedValues(e) == [1..e.arity -> KeyValues]

GetPrimaryKeyValue ==
    /\ ret = NoRet
    /\ ret' = [NoRet EXCEPT !.op = "get_primary_key_value",
                            !.out = get_primary_key_value(am, pk)]
    /\ UNCHANGED <<txn_vars, consolidate_vars, key_vars, am, life>>

FindById(values) ==
    /\ ret = NoRet
    /\ values \in SuppliedValues(pk)
    /\ ret' = [NoRet EXCEPT !.op = "find_by_id", !.arg = {values},
                            !.out = by_id_filters(values, pk),
                            !.flag = by_id_panics(values, pk)]
    /\ UNCHANGED <<txn_vars, consolidate_vars, key_vars, am, life>>

DeleteById(values) ==
    /\ ret = NoRet
    /\ values \in SuppliedValues(pk)
    /\ ret' = [NoRet EXCEPT !.op = "delete_by_id", !.arg = {values},
                            !.out = by_id_filters(values, pk),
                            !.flag = by_id_panics(values, pk)]
    /\ UNCHANGED <<txn_vars, consolidate_vars, key_vars, am, life>>

\* any key type, any ActiveModel of it
KeyInit ==
    /\ TxnIdle
    /\ ConsolidateIdle
    /\ pk \in KeyTypes
    /\ am \in KeyedActiveModels(pk)
    /\ ret = NoRet
    /\ life = NoLife

KeyNext ==
    \/ GetPrimaryKeyValue
    \/ \E values \in SuppliedValues(pk) : FindById(values)
    \/ \E values \in SuppliedValues(pk) : DeleteById(values)

KeySpec == KeyInit /\ [][KeyNext]_vars

\* ------------------------------------------------ from_json, set_from_json
\* The entity is shaped like tests_cfg::fruit: its first key column is skipped
\* by the Model's Deserialize (set_from_json accepts "id": null for id: i32),
\* its last column is an Option.
SkipDeserializing == {1}

\* serde_json::Value of a key of the object: null or a number
JsonNull == [kind |-> "null", v |-> 0]
JsonNumber(n) == [kind |-> "number", v |-> n]
JsonValues == {JsonNull} \cup {JsonNumber(n) : n \in 0..MaxVal}

\* a JSON object: its keys are names of columns (col.as_str())
JsonObjects == UNION {[keys -> JsonValues] : keys \in SUBSET Columns}

\* a JSON value that is not an object: it has no members, the value is kept
\* under 0, which names no column
NonObjects == {[k \in {0} |-> j] : j \in JsonValues}
JsonDocuments == JsonObjects \cup NonObjects

\* Self::default_values(): Set(Default::default()) in every field
default_value(c) == IF c \in Nullable THEN NoneValue ELSE 0

\* serde_json::to_value of a field of the dummy model
to_json(v) == IF v = NoneValue THEN JsonNull ELSE JsonNumber(v)

\* the value a field holds that was deserialized from the JSON value j
json_value(j) == IF j.kind = "null" THEN NoneValue ELSE j.v

\* dummy_json with the input's entries inserted
merged(obj) == [c \in Columns |-> IF c \in DOMAIN obj THEN obj[c] ELSE to_json(default_value(c))]

\* Deserialize of one field of the Model: {} when it fails
deserialize_field_unskipped(c, j) ==
    IF j.kind = "null" /\ c \notin Nullable THEN {} ELSE {json_value(j)}
deserialize_field(c, j) ==
    IF c \in SkipDeserializing THEN {default_value(c)}
    ELSE IF j.kind = "null" /\ c \notin Nullable THEN {}
    ELSE {json_value(j)}

\* serde_json::from_value(json): the Model, {} when a field fails
from_value(json) ==
    IF \E c \in Columns : deserialize_field(c, json[c]) = {}
    THEN {}
    ELSE {[c \in Columns |-> CHOOSE v \in deserialize_field(c, json[c]) : TRUE]}

\* the loop over json_keys: a column named in the object is set to the value
\* the converted Model holds, every other column is not_set
mask(json_key_exists, slot) ==
    IF json_key_exists /\ ~is_not_set(slot)
    THEN SetValue(CHOOSE v \in slot.value : TRUE)
    ELSE NotSet

\* ActiveModelTrait::from_json: Ok(am) as {am}, Err as {}; anything but an
\* object is an error
from_json(obj) ==
    IF obj \in NonObjects THEN {}
    ELSE {[c \in Columns |-> mask(c \in DOMAIN obj, get(into_active_model(model), c))] :
            model \in from_value(merged(obj))}

\* the backup taken of a primary key column, put back after from_json
restore_json_value(backup, replaced) == replaced
restore_backup(backup, replaced) == backup
restore(backup, replaced) ==
    IF is_not_set(backup) THEN NotSet ELSE SetValue(CHOOSE v \in backup.value : TRUE)

\* ActiveModelTrait::set_from_json on the ActiveModel a: the ActiveModel
\* afterwards; the key columns have been taken when from_json fails
set_from_json_or_nothing(a, obj) ==
    IF from_json(obj) = {} THEN a
    ELSE LET replaced == CHOOSE r \in from_json(obj) : TRUE
         IN  [c \in Columns |-> IF c \in PrimaryKey THEN restore(a[c], replaced[c])
                                 ELSE replaced[c]]
set_from_json_merging(a, obj) ==
    LET taken == [c \in Columns |-> IF c \in PrimaryKey THEN take_leaves(a[c]) ELSE a[c]]
    IN  IF from_json(obj) = {}
        THEN taken
        ELSE LET replaced == CHOOSE r \in from_json(obj) : TRUE
             IN  [c \in Columns |-> IF c \in PrimaryKey THEN restore(a[c], replaced[c])
                                     ELSE IF c \in DOMAIN obj THEN replaced[c]
                                     ELSE a[c]]
set_from_json(a, obj) ==
    LET taken == [c \in Columns |-> IF c \in PrimaryKey THEN take_leaves(a[c]) ELSE a[c]]
    IN  IF from_json(obj) = {}
        THEN taken
        ELSE LET replaced == CHOOSE r \in from_json(obj) : TRUE
             IN  [c \in Columns |-> IF c \in PrimaryKey THEN restore(a[c], replaced[c])
                                     ELSE replaced[c]]

\* the ActiveModels set_from_json is called on
JsonTargets ==
    {a \in [Columns -> {NotSet, SetValue(0), SetValue(1), UnchangedValue(1)}] :
        \A c \in Columns \ PrimaryKey : a[c] \in {NotSet, SetValue(0), UnchangedValue(1)}}

FromJson(obj) ==
    /\ ret = NoRet
    /\ am = DefaultActiveModel
    /\ ret' = [NoRet EXCEPT !.op = "from_json", !.arg = {obj}, !.out = from_json(obj),
                            !.flag = from_json(obj) # {}]
    /\ UNCHANGED <<non_entity_vars, am, life>>

\* the record keeps, as model, the ActiveModel the call was made on
SetFromJson(obj) ==
    /\ ret = NoRet
    /\ am' = set_from_json(am, obj)
    /\ ret' = [NoRet EXCEPT !.op = "set_from_json", !.arg = {obj},
                            !.flag = from_json(obj) # {}, !.model = {am}]
    /\ UNCHANGED <<non_entity_vars, life>>

JsonInit ==
    /\ TxnIdle
    /\ ConsolidateIdle
    /\ KeyIdle
    /\ am \in JsonTargets
    /\ ret = NoRet
    /\ life = NoLife

JsonNext ==
    \/ \E obj \in JsonDocuments : FromJson(obj)
    \/ \E obj \in JsonDocuments : SetFromJson(obj)

JsonSpec == JsonInit /\ [][JsonNext]_vars

\* ------------------------------------------------------- single-row queries
\* query.fetch_one(conn).await of the sqlx drivers: the row, or an sqlx::Error
QueryResult(row) == [ok |-> TRUE, row |-> {row}, err |-> "none"]
NoQueryResult == [ok |-> TRUE, row |-> {}, err |-> "none"]
Failed(e) == [ok |-> FALSE, row |-> {}, err |-> e]
SqlxFetchOne == {QueryResult(m) : m \in Models} \cup {Failed("RowNotFound"), Failed("Database")}

\* conn.query_one(stmt) of the mock and proxy connections: Result<Option<QueryResult>, DbErr>
ConnQueryOne == {QueryResult(m) : m \in Models} \cup {NoQueryResult, Failed("Query")}

\* what the connection behind backend b can answer
Fetched(b) == IF b \in SqlxBackends THEN SqlxFetchOne ELSE ConnQueryOne

\* crate::sqlx_map_err_ignore_not_found: RowNotFound is Ok(None), any other
\* sqlx::Error a DbErr::Query
sqlx_map_err_ignore_not_found(r) ==
    IF r.ok THEN r
    ELSE IF r.err = "RowNotFound" THEN NoQueryResult
    ELSE Failed("Query")

\* DatabaseTransaction::query_one_raw
query_one_raw(b, r) == IF b \in SqlxBackends THEN sqlx_map_err_ignore_not_found(r) ELSE r

\* S::from_raw_query_result(row): the item, or the error of a column that
\* does not decode
from_raw_query_result(row, decodes) == IF decodes THEN QueryResult(row) ELSE Failed("Type")

\* Selector::one and SelectorRaw::one: let row = ..await?; match row
one_requires_row(b, r, decodes) ==
    LET row == query_one_raw(b, r)
    IN  IF ~row.ok THEN row
        ELSE IF row.row = {} THEN Failed("RecordNotFound")
        ELSE from_raw_query_result(CHOOSE m \in row.row : TRUE, decodes)
one(b, r, decodes) ==
    LET row == query_one_raw(b, r)
    IN  IF ~row.ok THEN row
        ELSE IF row.row = {} THEN NoQueryResult
        ELSE from_raw_query_result(CHOOSE m \in row.row : TRUE, decodes)

QueryOneRaw(r) ==
    /\ ret = NoRet
    /\ r \in Fetched(backend)
    /\ ret' = [NoRet EXCEPT !.op = "query_one_raw", !.arg = {r}, !.out = {query_one_raw(backend, r)},
                            !.flag = TRUE]
    /\ UNCHANGED <<non_entity_vars, am, life>>

\* self.query.limit(1); db.query_one(&self.query)
SelectorOne(r, decodes) ==
    /\ ret = NoRet
    /\ r \in Fetched(backend)
    /\ ret' = [NoRet EXCEPT !.op = "Selector::one", !.arg = {r}, !.out = {one(backend, r, decodes)},
                            !.flag = decodes]
    /\ UNCHANGED <<non_entity_vars, am, life>>

\* db.query_one_raw(self.stmt)
SelectorRawOne(r, decodes) ==
    /\ ret = NoRet
    /\ r \in Fetched(backend)
    /\ ret' = [NoRet EXCEPT !.op = "SelectorRaw::one", !.arg = {r}, !.out = {one(backend, r, decodes)},
                            !.flag = decodes]
    /\ UNCHANGED <<non_entity_vars, am, life>>

\* a transaction on any backend, no operation in progress
OneInit ==
    /\ TxnInit
    /\ offered = {BeginEntry}
    /\ EntityIdle
    /\ ConsolidateIdle
    /\ KeyIdle

OneNext ==
    \/ \E r \in SqlxFetchOne \cup ConnQueryOne : QueryOneRaw(r)
    \/ \E r \in SqlxFetchOne \cup ConnQueryOne, decodes \in BOOLEAN : SelectorOne(r, decodes)
    \/ \E r \in SqlxFetchOne \cup ConnQueryOne, decodes \in BOOLEAN : SelectorRawOne(r, decodes)

OneSpec == OneInit /\ [][OneNext]_vars

\* ================================================================ claims
WaitStates == {"begin_wait", "stmt_wait", "stream_wait", "commit_wait", "rollback_wait"}
LockedStates == {"begin_locked", "begin_second", "stmt_locked", "commit_locked", "rollback_locked"}
Waiting(t) == pc[t] \in WaitStates
InCritical(t) == pc[t] \in LockedStates
Holds(t) == <<t, "op">> \in guards \/ <<t, "stream">> \in guards

Has(t, c, ok) == \E i \in DOMAIN issued[t] : issued[t][i] = Ev(c, ok)
HasCall(t, c) == Has(t, c, TRUE) \/ Has(t, c, FALSE)
BeginSucceeded(t) == pc[t] \notin {"unborn", "begin_wait", "begin_locked", "begin_second", "begin_failed"}
                     /\ ~(pc[t] \in {"dropped", "panicked"} /\ \E i \in DOMAIN issued[t] :
                            i <= 2 /\ ~issued[t][i].ok /\ issued[t][i].call \in {"begin", "set_transaction_config"})

\* C1: at any moment at most one operation (begin, commit, rollback, a
\* statement, or a live stream) holds the connection lock; every operation that
\* is past its lock().await holds the only guard, all others are still waiting.
C1_MutualExclusion ==
    /\ Cardinality(guards) <= 1
    /\ Cardinality({t \in Txn : InCritical(t)}) + Cardinality({t \in Txn : stream[t] # {}}) <= 1
    /\ \A t \in Txn : InCritical(t) => guards = {<<t, "op">>}
    /\ \A t \in Txn : stream[t] # {} => guards = {<<t, "stream">>}

C1_Witness ==
    \E t, u \in Txn : t # u /\ Holds(t) /\ InCritical(t) /\ Waiting(u)

\* C2 (as claimed): the drop of a successfully begun transaction on which
\* neither commit() nor rollback() was called issues exactly one rollback on
\* the connection; the drop after a successful commit() or rollback() issues none.
C2_DropRollsBackOnce ==
    [][\A t \in Txn :
        (pc[t] # pc'[t] /\ pc'[t] \in {"dropped", "panicked"}) =>
            /\ pc[t] = "idle" =>
                  issued'[t] = Append(issued[t], Ev(StartRollbackCall(backend), TRUE))
            /\ pc[t] \in {"commit_ok", "rollback_ok"} => issued'[t] = issued[t]]_vars

\* C3 (as claimed): callback Ok => committed, never rolled back, result Ok or
\* (commit failed) Connection; callback Err => rolled back, never committed,
\* result Transaction.
C3_OriginalOutcome ==
    \A t \in Txn :
        /\ cbres[t] = "Ok" =>
              /\ ~HasCall(t, "rollback") /\ ~HasCall(t, "start_rollback")
              /\ pc[t] = "dropped" =>
                    result[t] = IF Has(t, "commit", TRUE) THEN "Ok" ELSE "Connection"
        /\ cbres[t] = "Err" =>
              /\ ~HasCall(t, "commit")
              /\ pc[t] = "dropped" => result[t] = "Transaction"

\* C3 (amended): callback Ok => commit() is called, rollback() never; the result
\* is Ok when the commit succeeded (and then no rollback of any kind is issued)
\* and Connection when it failed (the drop then issues start_rollback).
\* callback Err => rollback() is called, commit() never; the result is
\* Transaction when the rollback succeeded and Connection when it failed.
C3_RunOutcome ==
    \A t \in Txn :
        /\ cbres[t] = "Ok" =>
              /\ pc[t] \in {"commit_wait", "commit_locked", "commit_ok", "commit_failed",
                            "dropped", "panicked"}
              /\ ~Has(t, "rollback", FALSE)
              /\ Has(t, "commit", TRUE) =>
                    ~HasCall(t, "rollback") /\ ~HasCall(t, "start_rollback")
              /\ pc[t] = "dropped" =>
                    /\ HasCall(t, "commit")
                    /\ result[t] = IF Has(t, "commit", TRUE) THEN "Ok" ELSE "Connection"
                    /\ Has(t, "commit", FALSE) => Has(t, StartRollbackCall(backend), TRUE)
              /\ pc[t] # "dropped" => result[t] = "none"
        /\ cbres[t] = "Err" =>
              /\ pc[t] \in {"rollback_wait", "rollback_locked", "rollback_ok", "rollback_failed",
                            "dropped", "panicked"}
              /\ ~HasCall(t, "commit")
              /\ pc[t] = "dropped" =>
                    /\ HasCall(t, "rollback")
                    /\ result[t] = IF Has(t, "rollback", FALSE) THEN "Connection" ELSE "Transaction"
              /\ pc[t] # "dropped" => result[t] = "none"
        /\ cbres[t] = "none" => result[t] = "none"

C3_Witness ==
    \E t \in Txn : cbres[t] = "Err" /\ pc[t] = "dropped" /\ result[t] = "Connection"

\* C4: a transaction is closed at most once (by a successful commit, a
\* successful rollback, or the drop-time rollback), and exactly once when its
\* value has gone without a panic; once closed nothing more is issued on its
\* behalf and no statement or stream runs through it; statements and streams
\* run through a transaction only while it is open.
IsClosing(e) == e.ok /\ e.call \in {"commit", "rollback", "start_rollback"}
Closings(t) == {i \in DOMAIN issued[t] : IsClosing(issued[t][i])}

C5_DropNeverBlocks ==
    [][\A t \in Txn :
        (pc[t] # pc'[t] /\ pc'[t] \in {"dropped", "panicked"} /\ open[t]) =>
            /\ guards' = guards
            /\ guards # {} => pc'[t] = "panicked" /\ issued' = issued
            /\ guards = {} => pc'[t] = "dropped"
                              /\ issued'[t] = Append(issued[t], Ev(StartRollbackCall(backend), TRUE))]_vars

C5_Witness ==
    \E t \in Txn : pc[t] = "panicked" /\ open[t] /\ guards # {}

\* C6 (as claimed): whatever the other handles of the connection are doing, the
\* drop of an unfinished transaction ends without a fatal error and leaves the
\* transaction rolled back.
C6_DropIsSafe ==
    \A t \in Txn :
        /\ pc[t] # "panicked"
        /\ (pc[t] = "dropped" /\ ~Has(t, "commit", TRUE)) => Closings(t) # {}

\* C7 (as claimed): while a transaction is alive no statement issued through
\* another handle of the connection executes.
C7_LifetimeExclusive ==
    \A t, u \in Txn : (t # u /\ Alive(t)) => pc[u] # "stmt_locked"

\* C7 (amended): a transaction keeps other handles off the connection only while
\* one of its own operations holds the lock: a statement through another handle
\* executes only when that statement holds the only guard, hence never during an
\* operation or a live stream of the transaction, though it does execute between
\* the transaction's operations.
C7_ExclusivePerOperation ==
    \A t, u \in Txn :
        (t # u /\ pc[u] = "stmt_locked") =>
            /\ guards = {<<u, "op">>}
            /\ ~Holds(t) /\ ~InCritical(t) /\ stream[t] = {}

C7_Witness ==
    \E t, u \in Txn : t # u /\ Alive(t) /\ pc[t] = "idle" /\ pc[u] = "stmt_locked"

\* C8: while a TransactionStream is alive it holds the only guard: no other
\* operation is past its lock().await, and a step that leaves the stream alive
\* acquires no guard, issues nothing on the connection and moves no waiting
\* operation.
C8_StreamPinsConnection ==
    [][\A t \in Txn :
        (stream[t] # {} /\ stream'[t] # {}) =>
            /\ guards = {<<t, "stream">>} /\ guards' = guards
            /\ issued' = issued
            /\ \A u \in Txn : ~InCritical(u) /\ ~InCritical(u)'
            /\ \A u \in Txn : Waiting(u) => pc'[u] = pc[u]]_vars

C8_Witness ==
    \E t, u \in Txn : t # u /\ stream[t] # {} /\ Waiting(u)

\* C9 (as claimed): once a stream has been dropped, under fair scheduling every
\* operation that waits for the lock eventually acquires it and completes.
Completed(t) == pc[t] \notin WaitStates \cup LockedStates
SelfBlocked(u) == stream[u] # {} /\ Waiting(u)

BeginCalls(t) == {i \in DOMAIN issued[t] : issued[t][i].call \in {"begin", "set_transaction_config"}}

BeginLength == IF backend \in SqlxBackends THEN 2 ELSE 1

C11_NestedBeginReuses ==
    \A t \in Txn :
        pc[t] # "unborn" =>
          /\ conn[t] # 0
          /\ parent[t] # 0 => conn[t] = conn[parent[t]]
          /\ (parent[t] # 0 /\ pc[t] = "idle") =>
                SubSeq(issued[t], 1, BeginLength) = SubSeq(issued[parent[t]], 1, BeginLength)
          /\ entry[t].via = "begin" => config[t] = NoConfig
          /\ entry[t].via = "begin_with_config" =>
                /\ config[t].isolation_level = entry[t].isolation_level
                /\ config[t].access_mode = entry[t].access_mode

C11_Witness ==
    \E t \in Txn :
        /\ parent[t] # 0 /\ pc[t] = "idle"
        /\ entry[t].via = "begin_with_config" /\ entry[parent[t]].via = "begin"
        /\ config[t] = [isolation_level |-> "Serializable", access_mode |-> "ReadOnly"]
        /\ HasCall(t, "set_transaction_config")

\* C12: set_if_not_equals(w) leaves the slot Unchanged(v) exactly when it was
\* Unchanged(v) and w equals v; in every other case (Unchanged(v) with another
\* w, Set(_), NotSet) the slot becomes Set(w); no other slot changes.
KeepsUnchanged(s, w) == s.state = "Unchanged" /\ \E v \in s.value : ValueEq(w, v)

C12_TransitionLaw ==
    [][ret'.op = "set_if_not_equals" =>
        LET c == ret'.col
            w == CHOOSE x \in ret'.arg : TRUE
        IN  /\ KeepsUnchanged(am[c], w) => am'[c] = am[c]
            /\ ~KeepsUnchanged(am[c], w) => am'[c] = SetValue(w)
            /\ is_unchanged(am'[c]) <=> KeepsUnchanged(am[c], w)
            /\ \A d \in Columns \ {c} : am'[d] = am[d]]_vars

C12_Witness ==
    /\ ret.op = "set_if_not_equals" /\ ~ret.again
    /\ is_unchanged(am[ret.col]) /\ am[ret.col].value = ret.arg
    /\ \E d \in Columns : is_set(am[d]) /\ am[d].value # ret.arg

\* C13: applying set_if_not_equals(w) a second time to the same slot changes
\* neither its state nor its value.
C13_Idempotent ==
    [][(ret'.op = "set_if_not_equals" /\ ret'.again) => am' = am]_vars

C13_Witness ==
    /\ ret.op = "set_if_not_equals" /\ ret.again
    /\ is_set(am[ret.col]) /\ am[ret.col].value = ret.arg

\* C14: take() on Set(v) or Unchanged(v) returns v, on NotSet it returns none;
\* it always leaves the slot NotSet, so a take() that follows a take() of the
\* same slot returns none.
C14_TakeIsDestructive ==
    [][ret'.op = "take" =>
        LET c == ret'.col
        IN  /\ am[c].state \in {"Set", "Unchanged"} => ret'.out = am[c].value /\ ret'.out # {}
            /\ am[c].state = "NotSet" => ret'.out = {}
            /\ am'[c] = NotSet
            /\ ret'.again => ret'.out = {}
            /\ \A d \in Columns \ {c} : am'[d] = am[d]]_vars

C14_Witness ==
    /\ ret.op = "take" /\ ret.again /\ ret.out = {}
    /\ am[ret.col] = NotSet

\* C15: reset_all turns every Unchanged(v) slot into Set(v), leaves every
\* Set(v) slot and every NotSet slot as it is, and changes no payload; an
\* all-Unchanged record becomes all-Set, an all-NotSet record stays as it is.
C15_ResetAllLaw ==
    [][ret'.op = "reset_all" =>
        /\ \A c \in Columns :
              /\ am[c].state = "Unchanged" => am'[c].state = "Set"
              /\ am[c].state = "Set" => am'[c].state = "Set"
              /\ am[c].state = "NotSet" => am'[c] = NotSet
              /\ am'[c].value = am[c].value
        /\ (\A c \in Columns : is_unchanged(am[c])) => \A c \in Columns : is_set(am'[c])
        /\ am = DefaultActiveModel => am' = am]_vars

C15_Witness ==
    /\ ret.op = "reset_all" /\ ~ret.again
    /\ \A c \in Columns : is_set(am[c])
    /\ \E c, d \in Columns : am[c].value # am[d].value

\* C16: is_changed is true exactly when at least one column slot is Set;
\* Unchanged and NotSet slots never make it true, whatever was done to the
\* slots before.
HasSetSlot == \E c \in Columns : am[c].state = "Set"

C16_IsChangedIffSet ==
    /\ is_changed(am) <=> HasSetSlot
    /\ ret.op = "is_changed" => (ret.flag <=> HasSetSlot)

C16_Witness ==
    /\ ret.op = "is_changed" /\ ~ret.flag
    /\ \E c \in Columns : am[c].state = "Unchanged"
    /\ \E c \in Columns : am[c].state = "NotSet"

\* C17: a Model converted into an ActiveModel has every slot Unchanged with
\* the Model's value, and is_changed is false for it; a plain set of one column
\* to any value, the stored one included, makes is_changed true.
C17_ConvertedIsUnchanged ==
    [][/\ ret'.op = "into_active_model" =>
            /\ \A m \in ret'.model : \A c \in Columns : am'[c] = UnchangedValue(m[c])
            /\ ret'.model # {}
            /\ ~is_changed(am')
       /\ ret'.op = "set" =>
            /\ is_changed(am')
            /\ am'[ret'.col] = [state |-> "Set", value |-> ret'.arg]
            /\ (is_unchanged(am[ret'.col]) /\ am[ret'.col].value = ret'.arg) => is_changed(am')]_vars

C17_Witness ==
    /\ ret.op = "set" /\ is_changed(am)
    /\ \A d \in Columns \ {ret.col} : is_unchanged(am[d])

\* C18: save performs an insert when at least one primary key slot is NotSet
\* and an update otherwise (Set and Unchanged key slots both count as
\* present); it executes at most one statement, of the kind it chose, and
\* exactly one when it succeeds.
StatementSteps == {i \in DOMAIN life.steps : life.steps[i].step \in {"insert", "update", "delete"}}

C18_SaveDispatch ==
    life.via = "save" =>
        /\ life.op \in {"insert", "update"}
        /\ life.op = "insert" <=> \E k \in PrimaryKey : am[k].state = "NotSet"
        /\ life.op = "update" <=> \A k \in PrimaryKey : am[k].state \in {"Set", "Unchanged"}
        /\ \A i \in StatementSteps : life.steps[i].step = life.op
        /\ Cardinality(StatementSteps) <= 1
        /\ life.out = "Ok" => Cardinality(StatementSteps) = 1

C18_Witness ==
    /\ life.via = "save" /\ life.op = "insert" /\ life.out = "Ok"
    /\ \E k \in PrimaryKey : am[k].state = "NotSet"
    /\ \E k \in PrimaryKey : am[k].state = "Set"

\* C19: insert and update run before_save first; the statement is executed
\* only if the hook succeeded, and is built from the ActiveModel the hook
\* returned; after_save runs only if the statement succeeded, and receives the
\* Model the statement returned; the operation returns what after_save
\* returned. The error of the first failing step is returned, no later step
\* runs and no value is returned with it.
C19_StepOrdering ==
    life.op \in {"insert", "update"} =>
        LET S == life.steps
            n == Len(life.steps)
        IN  /\ n <= 3
            /\ n >= 1 => S[1].step = "before_save"
            /\ n >= 2 => /\ S[1].ok /\ S[2].step = life.op
                          /\ life.sent = life.hooked /\ life.hooked # {}
            /\ n >= 3 => /\ S[2].ok /\ S[3].step = "after_save"
                          /\ life.after = life.model /\ life.model # {}
                          /\ life.model = {ModelOf(a) : a \in life.sent}
            /\ life.out = "Ok" <=> (n = 3 /\ S[3].ok)
            /\ life.out = "Err_before" <=> (n = 1 /\ ~S[1].ok)
            /\ life.out = "Err_exec" <=> (n = 2 /\ ~S[2].ok)
            /\ life.out = "Err_after" <=> (n = 3 /\ ~S[3].ok)
            /\ life.out # "Ok" => life.value = {}
            /\ (life.out = "Ok" /\ life.via = "direct") =>
                    life.value = life.hookret /\ life.hookret # {}
            /\ (life.out = "Ok" /\ life.via = "save") =>
                    life.value = {into_active_model(m) : m \in life.hookret} /\ life.hookret # {}

C19_Witness ==
    /\ life.op = "update" /\ life.via = "direct" /\ life.out = "Ok"
    /\ life.hooked # {am} /\ life.sent = life.hooked
    /\ life.hookret # life.model /\ life.value = life.hookret

\* the steps of delete, with afterGets the record after_delete is called with
DeleteSteps(afterGets) ==
    life.op = "delete" =>
        LET S == life.steps
            n == Len(life.steps)
        IN  /\ n <= 3
            /\ n >= 1 => S[1].step = "before_delete"
            /\ n >= 2 => /\ S[1].ok /\ S[2].step = "delete"
                          /\ life.sent = life.hooked /\ life.hooked # {}
                          /\ life.key = {delete_key(a) : a \in life.hooked}
            /\ n >= 3 => /\ S[2].ok /\ S[3].step = "after_delete"
                          /\ life.after = afterGets
            /\ life.out = "Ok" <=> (n = 3 /\ S[3].ok)
            /\ life.out = "Ok" => life.value = life.rows /\ life.rows # {}

\* C20 as claimed: delete runs before_delete, then the DELETE keyed on the
\* primary key, then after_delete with the record as it was passed to delete,
\* and returns the delete result with the affected-row count.
C20_AfterDeleteGetsInput == DeleteSteps({am})

\* C20: delete runs before_delete, then the DELETE keyed on the primary key of
\* the record before_delete returned, then after_delete with a clone of that
\* record, and, when no step failed, returns the delete result with the
\* affected-row count; a failing step ends the operation with its error.
C20_DeleteLifecycle ==
    /\ DeleteSteps(life.hooked)
    /\ life.op = "delete" =>
          /\ life.out = "Err_before" <=> (Len(life.steps) = 1 /\ ~life.steps[1].ok)
          /\ life.out = "Err_exec" <=> (Len(life.steps) = 2 /\ ~life.steps[2].ok)
          /\ life.out = "Err_after" <=> (Len(life.steps) = 3 /\ ~life.steps[3].ok)
          /\ life.out # "Ok" => life.value = {}

C20_Witness ==
    /\ life.op = "delete" /\ life.out = "Ok"
    /\ life.hooked # {am} /\ life.after = life.hooked
    /\ life.value = {1}

\* C21: when after_save (insert, update) or after_delete (delete) fails, the
\* operation returns that error and no value; the INSERT / UPDATE / DELETE was
\* executed successfully before the hook ran, it is the only statement the
\* operation executed, and nothing follows the failed hook.
C21_AfterHookFailureKeepsWrite ==
    life.out = "Err_after" =>
        /\ life.stage = "done" /\ life.value = {}
        /\ Len(life.steps) = 3
        /\ life.steps[2] = Step(life.op, TRUE)
        /\ life.steps[3] = Step(IF life.op = "delete" THEN "after_delete" ELSE "after_save", FALSE)
        /\ \A i \in DOMAIN life.steps :
              life.steps[i].step \notin {"before_save", "before_delete", "after_save", "after_delete"}
                  => i = 2
        /\ life.sent # {}

C21_Witness ==
    life.out = "Err_after" /\ life.op = "insert" /\ life.via = "save" /\ life.sent # {}

\* the rows of the input at which a parent key occurs for the first time
FirstSeen == {i \in DOMAIN input : \A j \in 1..(i - 1) :
                                      model_key(input[j].parent) # model_key(input[i].parent)}

\* C22: the output of the consolidation has exactly one entry per distinct
\* parent key of the input, and the entries are ordered by the position at
\* which each key first occurs in the input, also when the rows of a parent
\* are not adjacent.
C22_OnePerParentFirstSeen ==
    phase = "done" =>
        /\ Len(consolidated) = Cardinality(FirstSeen)
        /\ \A i \in FirstSeen :
              model_key(consolidated[Cardinality({j \in FirstSeen : j <= i})].parent)
                  = model_key(input[i].parent)
        /\ \A m, n \in DOMAIN consolidated :
              model_key(consolidated[m].parent) = model_key(consolidated[n].parent) => m = n

C22_Witness ==
    /\ phase = "done" /\ Len(input) = 3 /\ Len(consolidated) = 2
    /\ model_key(input[1].parent) = model_key(input[3].parent)
    /\ model_key(input[1].parent) # model_key(input[2].parent)

\* the present children of the input rows with parent key k, in input order
ChildrenOf(k) ==
    LET with == SelectSeq(input, LAMBDA r : model_key(r.parent) = k /\ r.child # {})
    IN  [i \in DOMAIN with |-> CHOOSE c \in with[i].child : TRUE]

\* C23: the children of each output parent are exactly the present children of
\* all the input rows with that parent key, in input order, however scattered
\* the rows are; a child that several rows repeat appears once per row.
C23_ChildrenExact ==
    phase = "done" =>
        \A n \in DOMAIN consolidated :
            consolidated[n].children = ChildrenOf(model_key(consolidated[n].parent))

C23_Witness ==
    /\ phase = "done" /\ Len(input) = 3
    /\ model_key(input[1].parent) = model_key(input[3].parent)
    /\ model_key(input[1].parent) # model_key(input[2].parent)
    /\ input[1].child # {} /\ input[1].child = input[3].child
    /\ Len(consolidated[1].children) = 2

\* C24: a parent all of whose input rows have no child is in the output, with
\* an empty list of children.
C24_ChildlessParentKept ==
    phase = "done" =>
        \A i \in DOMAIN input :
            (\A j \in DOMAIN input :
                model_key(input[j].parent) = model_key(input[i].parent) => input[j].child = {})
            => \E n \in DOMAIN consolidated :
                  /\ model_key(consolidated[n].parent) = model_key(input[i].parent)
                  /\ consolidated[n].children = <<>>

C24_Witness ==
    /\ phase = "done" /\ Len(input) = 3
    /\ input[1].child # {} /\ input[2].child = {} /\ input[3].child = {}
    /\ model_key(input[2].parent) = model_key(input[3].parent)
    /\ model_key(input[1].parent) # model_key(input[2].parent)
    /\ Len(consolidated) = 2 /\ consolidated[2].children = <<>>

\* the key columns the extraction reads all hold a value
KeyPresent == \A c \in KeyColumns(pk) : am[c].state \in {"Set", "Unchanged"}

\* C25 (as claimed), for an entity whose ValueType has one component per key
\* column: get_primary_key_value returns a key exactly when every primary key
\* column is Set or Unchanged; the key holds the key values in declared order:
\* one value for arity 1, a 2-tuple for arity 2, an ordered list of as many
\* values as the arity for 3 or more columns.
C25_ListFromThreeColumns ==
    (ret.op = "get_primary_key_value" /\ pk.arity = pk.columns) =>
        /\ ret.out # {} <=> KeyPresent
        /\ \A key \in ret.out :
              /\ key.values = [c \in KeyColumns(pk) |-> CHOOSE v \in am[c].value : TRUE]
              /\ key.variant = CASE pk.columns = 1 -> "One"
                                  [] pk.columns = 2 -> "Two"
                                  [] OTHER -> "Many"

\* C25 (amended): get_primary_key_value reads the first ARITY key columns in
\* declared order, ARITY being the arity of the key's ValueType (the number
\* of key columns for a derived entity); it returns a key exactly when each
\* of them exists and is Set or Unchanged; the key holds their values in
\* that order, as One for arity 1, Two for 2, Three for 3, and as the list
\* Many, of length ARITY, for 4 or more.
C25_KeyShapedByArity ==
    ret.op = "get_primary_key_value" =>
        /\ ret.out # {} <=>
              /\ pk.arity <= pk.columns
              /\ \A c \in 1..pk.arity : am[c].state \in {"Set", "Unchanged"}
        /\ pk.arity = pk.columns => (ret.out # {} <=> KeyPresent)
        /\ \A key \in ret.out :
              /\ key.values = [c \in 1..pk.arity |-> CHOOSE v \in am[c].value : TRUE]
              /\ key.variant = CASE pk.arity = 1 -> "One"
                                  [] pk.arity = 2 -> "Two"
                                  [] pk.arity = 3 -> "Three"
                                  [] OTHER -> "Many"

C25_Witness ==
    /\ ret.op = "get_primary_key_value" /\ pk = [columns |-> 3, arity |-> 3]
    /\ am[1] = SetValue(1) /\ am[2] = UnchangedValue(0) /\ am[3] = SetValue(0) /\ am[4] = NotSet
    /\ \E key \in ret.out : key.variant = "Three" /\ key.values = <<1, 0, 0>>

\* C26 (as claimed): find_by_id and delete_by_id panic whenever the number of
\* supplied values differs from the number of primary key columns, be it
\* greater or smaller; they never return a query filtered on part of the key.
C26_MismatchPanics ==
    ret.op \in {"find_by_id", "delete_by_id"} =>
        /\ (\E values \in ret.arg : Len(values) # pk.columns) => ret.flag
        /\ \A filters \in ret.out : {filters[i].col : i \in DOMAIN filters} = KeyColumns(pk)

\* C27 (as claimed): when the object deserializes, from_json returns an
\* ActiveModel in which a column is Set, to the value the object has under
\* the column's name, exactly when that name is a key of the object, and is
\* NotSet otherwise; no column is Unchanged.
C27_SetToJsonValue ==
    (ret.op = "from_json" /\ ret.flag) =>
        \A obj \in ret.arg, a \in ret.out, c \in Columns :
            a[c] = IF c \in DOMAIN obj THEN SetValue(json_value(obj[c])) ELSE NotSet

\* C27 (amended): when the object deserializes, from_json returns an
\* ActiveModel in which a column is Set exactly when its name is a key of the
\* object, and NotSet otherwise, never Unchanged; a Set column holds the value
\* of the Model deserialized from the object: the value the object has under
\* that name, or the default of the column's type when the Model's
\* Deserialize skips the field.
C27_KeyPresenceMask ==
    (ret.op = "from_json" /\ ret.flag) =>
        /\ ret.out # {}
        /\ \A obj \in ret.arg, a \in ret.out, c \in Columns :
              /\ a[c].state = IF c \in DOMAIN obj THEN "Set" ELSE "NotSet"
              /\ (c \in DOMAIN obj /\ c \notin SkipDeserializing) =>
                    a[c].value = {json_value(obj[c])}
              /\ (c \in DOMAIN obj /\ c \in SkipDeserializing) =>
                    a[c].value = {default_value(c)}

C27_Witness ==
    /\ ret.op = "from_json" /\ ret.flag
    /\ \E obj \in ret.arg, a \in ret.out :
          /\ DOMAIN obj = {1, NCols}
          /\ obj[1] = JsonNumber(1) /\ obj[NCols] = JsonNull
          /\ a[1] = SetValue(0) /\ a[2] = NotSet /\ a[NCols] = SetValue(NoneValue)

\* C28: a successful set_from_json leaves in every primary key column the
\* value it held before the call, and leaves it NotSet when it was NotSet,
\* whatever the object has under that column's name, a number or null.
C28_PrimaryKeyKept ==
    [][(ret'.op = "set_from_json" /\ ret'.flag) =>
          \A c \in PrimaryKey :
              /\ am'[c].value = am[c].value
              /\ is_not_set(am[c]) <=> is_not_set(am'[c])]_vars

C28_Witness ==
    /\ ret.op = "set_from_json" /\ ret.flag
    /\ \E obj \in ret.arg :
          /\ DOMAIN obj = Columns
          /\ obj[1] = JsonNull /\ obj[2] = JsonNumber(0)
    /\ am[1] = NotSet /\ am[2] = SetValue(1) /\ am[NCols] # NotSet

\* the columns of S in declaration order
ColumnSeq(S) == SelectSeq([c \in 1..NCols |-> c], LAMBDA c : c \in S)

\* the statement lists the columns of S, in declaration order, each with the
\* value the record a holds there
Lists(columns, a, S) ==
    /\ [i \in DOMAIN columns |-> columns[i].col] = ColumnSeq(S)
    /\ \A i \in DOMAIN columns : \E v \in a[columns[i].col].value :
          columns[i].value = [null |-> v = NoneValue, v |-> IF v = NoneValue THEN 0 ELSE v]

NonKeyColumns == Columns \ PrimaryKey

\* C29: update of a record none of whose columns outside the primary key is
\* Set, such as one converted from a Model, executes no UPDATE: it selects
\* the row by its primary key and returns the Model fetched as success. The
\* same record after reset_all executes an UPDATE that sets every column
\* outside the primary key.
C29_UpdateWithoutDirtyColumn ==
    (life.op = "update" /\ life.sql # {}) =>
        \A a \in life.sent, q \in life.sql :
            /\ q.kind \in {"SELECT", "UPDATE"}
            /\ q.kind = "SELECT" <=> \A c \in NonKeyColumns : a[c].state # "Set"
            /\ q.kind = "SELECT" => q.columns = <<>>
            /\ q.kind = "UPDATE" => Lists(q.columns, a, {c \in NonKeyColumns : a[c].state = "Set"})
            /\ (\A k \in PrimaryKey : a[k].state # "NotSet") => Lists(q.where, a, PrimaryKey)
            /\ \A m \in Models :
                  /\ a = into_active_model(m) =>
                        /\ q.kind = "SELECT"
                        /\ life.steps[2].ok => life.model = {m}
                        /\ (life.out = "Ok" /\ life.via = "direct") => life.value = life.hookret
                  /\ a = reset_all(into_active_model(m)) =>
                        q.kind = "UPDATE" /\ Lists(q.columns, a, NonKeyColumns)

C29_Witness ==
    /\ life.op = "update" /\ life.via = "direct" /\ life.out = "Ok"
    /\ am = into_active_model([c \in Columns |-> 1])
    /\ life.sent = {am}
    /\ \E q \in life.sql : q.kind = "SELECT" /\ Len(q.where) = NPk
    /\ life.value = {[c \in Columns |-> 1]}

\* C30: the INSERT built from an ActiveModel lists exactly the columns whose
\* slot is not NotSet, in declaration order, with their values; a NotSet
\* column is left out, a column that is Set(None) is listed with NULL.
C30_InsertColumnList ==
    (life.op = "insert" /\ life.sql # {}) =>
        \A a \in life.sent, q \in life.sql :
            /\ q.kind = "INSERT"
            /\ Lists(q.columns, a, {c \in Columns : a[c].state # "NotSet"})
            /\ \A c \in Columns :
                  /\ a[c].state = "NotSet" => \A i \in DOMAIN q.columns : q.columns[i].col # c
                  /\ a[c] = SetValue(NoneValue) =>
                        \E i \in DOMAIN q.columns : q.columns[i].col = c /\ q.columns[i].value.null
                  /\ (a[c].state # "NotSet" /\ a[c] # SetValue(NoneValue)) =>
                        \E i \in DOMAIN q.columns : q.columns[i].col = c /\ ~q.columns[i].value.null

C30_Witness ==
    /\ life.op = "insert" /\ life.via = "direct" /\ life.out = "Ok"
    /\ am[1] = NotSet /\ am[2] = UnchangedValue(1) /\ am[NCols] = SetValue(NoneValue)
    /\ life.sent = {am}
    /\ \E q \in life.sql : Len(q.columns) = NCols - 1 /\ q.columns[1].col = 2
                             /\ q.columns[NCols - 1].value.null

\* C31: a single-row query (Selector::one, SelectorRaw::one, query_one_raw)
\* that matches no row returns Ok(None); it returns an error exactly when the
\* driver failed otherwise or the row fetched does not decode, and Ok(Some)
\* with the row exactly when a row was fetched and, where decoded, decodes.
C31_NoRowIsNotAnError ==
    ret.op \in {"query_one_raw", "Selector::one", "SelectorRaw::one"} =>
        \A r \in ret.arg, res \in ret.out :
            LET no_row == r \in {Failed("RowNotFound"), NoQueryResult}
                driver_failed == ~r.ok /\ r.err # "RowNotFound"
                decode_failed == r.row # {} /\ ret.op # "query_one_raw" /\ ~ret.flag
            IN  /\ no_row => res = NoQueryResult
                /\ ~res.ok <=> (driver_failed \/ decode_failed)
                /\ driver_failed => res.err = "Query"
                /\ decode_failed => res.err = "Type"
                /\ (res.ok /\ res.row # {}) <=> (r.row # {} /\ ~decode_failed)
                /\ res.ok => res.row = r.row

C31_Witness ==
    /\ backend = "Postgres" /\ ret.op = "Selector::one"
    /\ ret.arg = {Failed("RowNotFound")} /\ ret.out = {NoQueryResult}

\* the key the claim describes for a parent, and agreement of two parents on
\* every primary key column
DescribedKey(p) ==
    CASE pk.columns = 1 -> p.id
      [] pk.columns = 2 -> <<p.id, p.name>>
      [] OTHER -> <<p.id, p.name, p.vendor_id>>
AgreeOnKey(p, q) == \A i \in 1..pk.columns : p[ParentKeyColumns[i]] = q[ParentKeyColumns[i]]

\* C32: the rows are grouped under the values of the parent's primary key
\* columns only: the value for arity 1, the ordered pair for arity 2, the
\* ordered vector of all key values otherwise; rows whose parents agree on
\* every primary key column end in one entry, whatever their other columns
\* hold, and that entry carries the parent of the first of these rows.
C32_KeyColumnsOnly ==
    /\ (phase = "into_iter" /\ cursor = 1) =>
          DOMAIN hashmap = {DescribedKey(input[i].parent) : i \in DOMAIN input}
    /\ phase = "done" =>
          \A i \in DOMAIN input :
              (\A k \in 1..(i - 1) : ~AgreeOnKey(input[k].parent, input[i].parent)) =>
                  \E n \in DOMAIN consolidated :
                      /\ consolidated[n].parent = input[i].parent
                      /\ \A m \in DOMAIN consolidated :
                            AgreeOnKey(consolidated[m].parent, input[i].parent) => m = n

C32_Witness ==
    /\ phase = "done" /\ pk.arity = 2 /\ Len(input) = 2
    /\ AgreeOnKey(input[1].parent, input[2].parent)
    /\ input[1].parent.vendor_id # input[2].parent.vendor_id
    /\ Len(consolidated) = 1 /\ consolidated[1].parent = input[1].parent
    /\ Len(consolidated[1].children) = 2

\* the rows of a parent key are adjacent; a row without a child is the only
\* row of its parent
Contiguous ==
    \A i, j \in DOMAIN input :
        (i < j /\ model_key(input[i].parent) = model_key(input[j].parent)) =>
            \A k \in i..j : model_key(input[k].parent) = model_key(input[i].parent)
LeftJoinShape ==
    \A i, j \in DOMAIN input :
        (input[i].child = {} /\ model_key(input[j].parent) = model_key(input[i].parent)) => i = j

\* C33: on an input in which the rows of each parent key are contiguous and a
\* row with an absent child is the sole row of its parent, the hash-keyed
\* consolidation and the legacy consolidation of ordered rows return the same
\* output.
C33_LegacyEquivalence ==
    (ret.op = "consolidate_query_result_of_ordered_rows" /\ Contiguous /\ LeftJoinShape) =>
        ret.out = {consolidated}

C33_Witness ==
    /\ ret.op = "consolidate_query_result_of_ordered_rows" /\ Contiguous /\ LeftJoinShape
    /\ pk.arity = 1 /\ Len(input) = 3
    /\ input[1].parent.id = input[2].parent.id /\ input[1].parent.name # input[2].parent.name
    /\ input[3].child = {}
    /\ Len(consolidated) = 2 /\ Len(consolidated[1].children) = 2
    /\ ret.out = {consolidated}

\* C34: no take, reset or set_if_not_equals (nor reset_all or a plain set)
\* turns a slot that is Set or NotSet into Unchanged; set_if_not_equals on a
\* Set slot leaves it Set, with the value given, also when that is the value
\* the slot held as Unchanged before it was first edited.
C34_DirtyMarkSticks ==
    [][ret'.op \in {"take", "reset", "set_if_not_equals", "reset_all", "set"} =>
        \A c \in Columns :
            /\ am[c].state \in {"Set", "NotSet"} => am'[c].state # "Unchanged"
            /\ (ret'.op = "set_if_not_equals" /\ ret'.col = c /\ is_set(am[c])) =>
                  am'[c] = [state |-> "Set", value |-> ret'.arg]]_vars

C34_Witness ==
    /\ ret.op = "set_if_not_equals" /\ ~ret.again /\ ret.arg \subseteq 0..MaxVal
    /\ is_set(am[ret.col]) /\ am[ret.col].value = ret.arg
    /\ \A d \in Columns \ {ret.col} : is_unchanged(am[d]) /\ am[d].value = ret.arg

C36_KeyComesBackSet ==
    [][(ret'.op = "set_from_json" /\ ret'.flag) =>
          /\ \A c \in PrimaryKey :
                am[c].state \in {"Unchanged", "Set"} =>
                    am'[c] = [state |-> "Set", value |-> am[c].value]
          /\ (\E c \in PrimaryKey : am[c].state \in {"Unchanged", "Set"}) => is_changed(am')]_vars

C36_Witness ==
    /\ ret.op = "set_from_json" /\ ret.flag /\ ret.arg = {<<>>}
    /\ \E before \in ret.model :
          /\ before[1] = UnchangedValue(1) /\ before[2] = NotSet
          /\ ~is_changed(before)
    /\ am[1] = SetValue(1) /\ is_changed(am)

C38_FailedCloseGivesConnection ==
    \A t \in Txn :
        (/\ pc[t] \in {"dropped", "panicked"}
         /\ \/ cbres[t] = "Err" /\ Has(t, "rollback", FALSE)
            \/ cbres[t] = "Ok" /\ Has(t, "commit", FALSE))
        => result[t] = "Connection"

\* C39 (as claimed): the open flag is cleared only by a commit or rollback
\* statement that succeeded; after a failed begin, commit or rollback the
\* value is still flagged open when it is dropped, and its drop issues
\* start_rollback on the connection.
C39_FailureThenRollback ==
    [][\A t \in Txn :
        /\ (open[t] /\ ~open'[t]) =>
              \E c \in {"commit", "rollback"} : issued'[t] = Append(issued[t], Ev(c, TRUE))
        /\ pc[t] \in {"begin_failed", "commit_failed", "rollback_failed"} =>
              /\ open[t]
              /\ pc'[t] # pc[t] =>
                    issued'[t] = Append(issued[t], Ev(StartRollbackCall(backend), TRUE))]_vars

\* C40: a task that keeps a TransactionStream alive and awaits a statement or
\* another stream through the same handle stays where it is for ever: its
\* stream stays alive and its operation stays waiting. No operation waiting
\* for the lock of the connection, be it begin, commit, rollback, a statement
\* or a stream, acquires it in a step taken while a stream is alive.
C40_SelfDeadlock ==
    [][/\ \A u \in Txn : SelfBlocked(u) => SelfBlocked(u)' /\ pc'[u] = pc[u] /\ stream'[u] = stream[u]
       /\ \A t, v \in Txn : (stream[t] # {} /\ Waiting(v)) => pc'[v] = pc[v]]_vars

C40_Witness ==
    \E t, v \in Txn :
        /\ t # v /\ stream[t] # {} /\ pc[t] = "stmt_wait"
        /\ pc[v] \in {"begin_wait", "commit_wait"}
====
